---- MODULE Spec2Model ----
(***************************************************************************)
(* Model of the poppleract text extractors                                 *)
(* (text_extraction_service/text_extraction.py): PdfToTextExtractor,       *)
(* TesseractPdfExtractor and PoppleractPdfExtractor, their shared          *)
(* path check / merge / store / cache-folder helpers, PdfSplitter          *)
(* (poppleract/pdf_splitting.py) and the /extract_text request handler     *)
(* (poppleract/services.py).                                               *)
(* Strings are TLA+ strings; the file system is a map from absolute paths  *)
(* to file contents plus a set of directories.                             *)
(* Specifications: Spec (sequences of calls), SpecMerge (the merge of page *)
(* lists), SpecConc (two calls at once), SpecService (requests to the      *)
(* handler), SpecOrder (a document of ten and more pages), SpecNames       *)
(* (input files of every short name).                                      *)
(***************************************************************************)
EXTENDS Integers, Sequences, FiniteSets, TLC

VARIABLES
    fs,            \* files on disk: absolute path -> content
    dirs,          \* directories on disk (absolute paths)
    pc,            \* position of the running extract_text call
    self,          \* the extractor object the call runs on
    args,          \* the arguments of the running call
    extracted_pages,     \* local of extract_text: list(pdftotext.PDF(...))
    images_folder_path,  \* local of extract_text
    imgs_pages,          \* local: sorted image paths / listing being OCRed
    result_pages,        \* local: result_pages / all_texts
    err,           \* the exception the call raised, "" if none
    log,           \* external effects of the running call, in order
    ncalls,        \* number of extract_text calls started
    written,       \* pages the rasterizer's process has written so far
    out_before,    \* the output file as the running call found it: its content
                   \* in a set, the empty set when the file was not there
    listed,        \* the contents of the image files the running call found
                   \* when it listed the folder, in the order of imgs_pages
    entries,       \* local of shutil.rmtree: the names scandir listed, still to delete
    topfd,         \* shutil.rmtree's directory: "none", "fresh" (the directory
                   \* lstat found is at its path) or "stale" (it was removed since)
    other,         \* the locals of a second extract_text call, while it waits
    handler        \* the /extract_text request handler: position and locals

vars == <<fs, dirs, pc, self, args, extracted_pages, images_folder_path,
          imgs_pages, result_pages, err, log, ncalls, written, out_before, listed,
          entries, topfd, other, handler>>

\* what the steps of the running extract_text call leave alone
elsewhere == <<other, handler>>

-----------------------------------------------------------------------------
(* Bounds *)

\* extract_text calls in one behaviour
MaxCalls == 2

\* pages of the page lists given to the merge
MaxPages == 3

\* pages of the long document
LongPages == 10

\* characters of the input file names given to _remove_extensions
MaxNameLen == 5

-----------------------------------------------------------------------------
(* Strings *)

\* the characters of the cache folder's file names, in code-point order
Alphabet == "-./0123456789abcdefghijklmnopqrstuvwxyz"

Ord(c) == CHOOSE k \in 1..Len(Alphabet) : SubSeq(Alphabet, k, k) = c

Char(s, i) == SubSeq(s, i, i)

RECURSIVE StrLessFrom(_, _, _)
StrLessFrom(a, b, i) ==
    IF i > Len(a) THEN i <= Len(b)
    ELSE IF i > Len(b) THEN FALSE
    ELSE IF Char(a, i) = Char(b, i) THEN StrLessFrom(a, b, i + 1)
    ELSE Ord(Char(a, i)) < Ord(Char(b, i))

\* a < b on Python str
StrLess(a, b) == StrLessFrom(a, b, 1)

RECURSIVE sorted(_)
\* sorted(S) of a collection of distinct strings
sorted(S) ==
    IF S = {} THEN <<>>
    ELSE LET m == CHOOSE x \in S : \A y \in S \ {x} : StrLess(x, y)
         IN  <<m>> \o sorted(S \ {m})

RECURSIVE rfind(_, _, _)
\* s.rfind(c) looking at positions 1..i, 0 when absent
rfind(s, c, i) ==
    IF i = 0 THEN 0
    ELSE IF Char(s, i) = c THEN i
    ELSE rfind(s, c, i - 1)

RECURSIVE find(_, _, _)
\* first position >= i at which sub occurs in s, 0 when absent
find(s, sub, i) ==
    IF i + Len(sub) - 1 > Len(s) THEN 0
    ELSE IF SubSeq(s, i, i + Len(sub) - 1) = sub THEN i
    ELSE find(s, sub, i + 1)

StartsWith(s, p) == Len(s) >= Len(p) /\ SubSeq(s, 1, Len(p)) = p

RECURSIVE rstrip(_, _)
rstrip(s, c) ==
    IF Len(s) > 0 /\ Char(s, Len(s)) = c THEN rstrip(SubSeq(s, 1, Len(s) - 1), c)
    ELSE s

RECURSIVE lstrip(_, _)
lstrip(s, c) ==
    IF Len(s) > 0 /\ Char(s, 1) = c THEN lstrip(SubSeq(s, 2, Len(s)), c)
    ELSE s

-----------------------------------------------------------------------------
(* os.path *)

\* os.getcwd()
getcwd == "/w"

\* os.path.split(p): <<head, tail>>
split(p) ==
    LET i    == rfind(p, "/", Len(p))
        head == SubSeq(p, 1, i)
        tail == SubSeq(p, i + 1, Len(p))
    IN  <<IF rstrip(head, "/") = "" THEN head ELSE rstrip(head, "/"), tail>>

\* os.path.join(a, b)
join(a, b) ==
    IF StartsWith(b, "/") THEN b
    ELSE IF a = "" \/ Char(a, Len(a)) = "/" THEN a \o b
    ELSE a \o "/" \o b

RECURSIVE Components(_)
\* the non-empty components of a path, in order
Components(p) ==
    IF Len(p) = 0 THEN <<>>
    ELSE LET i == find(p, "/", 1)
         IN  IF i = 0 THEN <<p>>
             ELSE IF i = 1 THEN Components(SubSeq(p, 2, Len(p)))
             ELSE <<SubSeq(p, 1, i - 1)>> \o Components(SubSeq(p, i + 1, Len(p)))

RECURSIVE Collapse(_, _)
\* the components with "." dropped and ".." taking back the one before it
Collapse(done, rest) ==
    IF Len(rest) = 0 THEN done
    ELSE IF Head(rest) = "." THEN Collapse(done, Tail(rest))
    ELSE IF Head(rest) = ".."
    THEN Collapse(IF Len(done) = 0 THEN done ELSE SubSeq(done, 1, Len(done) - 1),
                  Tail(rest))
    ELSE Collapse(Append(done, Head(rest)), Tail(rest))

RECURSIVE Rooted(_)
\* "/" before each component
Rooted(components) ==
    IF Len(components) = 0 THEN ""
    ELSE "/" \o Head(components) \o Rooted(Tail(components))

\* os.path.realpath(p), there being no symbolic links: the path is taken
\* from the working directory, "//" is "/", "." the directory itself and ".."
\* its parent
realpath(p) ==
    LET absolute   == IF StartsWith(p, "/") THEN p ELSE getcwd \o "/" \o p
        components == Collapse(<<>>, Components(absolute))
    IN  IF Len(components) = 0 THEN "/" ELSE Rooted(components)

\* the paths most calls are made with, their cache folders and page images
KnownPaths ==
    { "r.txt", "r1.txt", "r2.txt", "a/doc.pdf", "b/doc.pdf", "c/scan.pdf",
      "c/text.pdf", "c/part.pdf", "d/doc.pdf", "imgs/doc", "imgs/scan",
      "imgs/text", "imgs/part" }
    \cup { folder \o "/pag-" \o n \o ".png" :
              folder \in {"imgs/doc", "imgs/scan", "imgs/text", "imgs/part"},
              n \in {"1", "2", "3", "4"} }
    \cup { "imgs/doc/pag-" \o n \o ".png" :
              n \in {"01", "02", "03", "04", "05", "06", "07", "08", "09",
                     "10", "11", "12"} }

\* realpath of the known paths, computed once
Resolved == [p \in KnownPaths |-> realpath(p)]

\* the file a path names: the operating system resolves it as realpath does
Resolve(p) == IF p \in KnownPaths THEN Resolved[p] ELSE realpath(p)

isfile(p) == Resolve(p) \in DOMAIN fs

isdir(p) == Resolve(p) \in dirs

\* os.listdir(d): the names of the files directly in d
listdir(d) ==
    LET dir == Resolve(d)
    IN  { split(f)[2] : f \in { g \in DOMAIN fs \cup dirs : g # "/" /\ split(g)[1] = dir } }

\* the files and directories below directory d
Below(d) ==
    LET dir == Resolve(d) \o "/"
    IN  { x \in DOMAIN fs \cup dirs : StartsWith(x, dir) }

-----------------------------------------------------------------------------
(* The documents on disk and the external tools *)

Digits == "0123456789"

RECURSIVE str(_)
\* str(n) for n >= 0
str(n) ==
    IF n < 10 THEN Char(Digits, n + 1)
    ELSE str(n \div 10) \o Char(Digits, (n % 10) + 1)

RECURSIVE zfill(_, _)
zfill(s, w) == IF Len(s) >= w THEN s ELSE zfill("0" \o s, w)

Doc1 == "/w/a/doc.pdf"
Doc2 == "/w/b/doc.pdf"
Doc3 == "/w/c/scan.pdf"
Doc4 == "/w/c/text.pdf"
Doc5 == "/w/d/doc.pdf"
Doc6 == "/w/c/part.pdf"

\* What the external tools make of each PDF: pdftotext's pages per layout
\* option and the page images the rasterizer renders.
\*   mixed: text page, short page, scanned page
\*   scan2: two scanned pages, same file name as mixed
\*   scan3: three scanned pages, rendered with a blank trailing image
\*   text2: two text pages
\*   long:  LongPages scanned pages, same file name as mixed
\*   part:  two text pages, of which the rasterizer renders the first only
Docs ==
    ("%PDF mixed" :> [text     |-> <<"Hello, page one here", "short", "">>,
                      raw      |-> <<"Hello, page one here", "short", "">>,
                      physical |-> <<"Hello,  page one  here", "short", "">>,
                      images   |-> <<"png mixed 1", "png mixed 2", "png mixed 3">>])
 @@ ("%PDF scan2" :> [text     |-> <<"", "">>,
                      raw      |-> <<"", "">>,
                      physical |-> <<"", "">>,
                      images   |-> <<"png scan2 1", "png scan2 2">>])
 @@ ("%PDF scan3" :> [text     |-> <<"", "", "">>,
                      raw      |-> <<"", "", "">>,
                      physical |-> <<"", "", "">>,
                      images   |-> <<"png scan3 1", "png scan3 2", "png scan3 3",
                                     "png blank">>])
 @@ ("%PDF text2" :> [text     |-> <<"First page of the text document.",
                                     "Second page, also long enough.">>,
                      raw      |-> <<"First page of the text document.",
                                     "also long enough. Second page,">>,
                      physical |-> <<"First page of the text document.",
                                     "Second page, also long enough.">>,
                      images   |-> <<"png text2 1", "png text2 2">>])
 @@ ("%PDF part"  :> [text     |-> <<"Part one, drawn and read.", "Part two, never drawn.">>,
                      raw      |-> <<"Part one, drawn and read.", "Part two, never drawn.">>,
                      physical |-> <<"Part one, drawn and read.", "Part two, never drawn.">>,
                      images   |-> <<"png part 1">>])
 @@ ("%PDF long"  :> [text     |-> [i \in 1..LongPages |-> ""],
                      raw      |-> [i \in 1..LongPages |-> ""],
                      physical |-> [i \in 1..LongPages |-> ""],
                      images   |-> [i \in 1..LongPages |-> "png long " \o str(i)]])

\* what Tesseract reads in each page image
OcrText ==
    ("png mixed 1" :> "Hello, page 0ne here")
 @@ ("png mixed 2" :> "short line seen by ocr")
 @@ ("png mixed 3" :> "scanned third page")
 @@ ("png scan2 1" :> "scan two, page one")
 @@ ("png scan2 2" :> "")
 @@ ("png scan3 1" :> "scan three, page one")
 @@ ("png scan3 2" :> "scan three, page two")
 @@ ("png scan3 3" :> "scan three, page three")
 @@ ("png blank"   :> "")
 @@ ("png text2 1" :> "First page of the text docurnent.")
 @@ ("png text2 2" :> "Second page, also long enough.")
 @@ ("png part 1"  :> "Part one, drawn and read.")
 @@ [image \in { "png long " \o str(i) : i \in 1..LongPages } |->
        "long page " \o SubSeq(image, Len("png long ") + 1, Len(image))]

\* pdftotext.PDF(pdf_file, raw, physical) on a file with PDF content
pdftotext(content, raw, physical) ==
    IF physical THEN Docs[content].physical
    ELSE IF raw THEN Docs[content].raw
    ELSE Docs[content].text

\* pytesseract.image_to_string(image, lang, config) on an image file's content
image_to_string(image, lang) ==
    IF lang = "eng" THEN OcrText[image] ELSE OcrText[image] \o " (ita)"

\* the rasterizer's name for page i of n: prefix-{zero-padded i}.format
ImageName(prefix, i, n, fmt) ==
    prefix \o "-" \o zfill(str(i), Len(str(n))) \o "." \o fmt

-----------------------------------------------------------------------------
(* text_extraction.py: helpers *)

MR     == "MachineReadable"
OCR    == "OpticalCharacterRecognition"
HYBRID == "Hybrid"

\* the extractor objects: PdfToTextExtractor(), and TesseractPdfExtractor /
\* PoppleractPdfExtractor(cache_folder="imgs", preserve_cache=...)
Extractors ==
    { [doc_extractor_type |-> MR, pages_sep_token |-> "<END_PAGE>",
       preserve_cache |-> TRUE, cache_folder |-> "imgs"] }
    \cup
    { [doc_extractor_type |-> k, pages_sep_token |-> "<END_PAGE>",
       preserve_cache |-> b, cache_folder |-> "imgs"] :
        k \in {OCR, HYBRID}, b \in BOOLEAN }

\* BasePdfExtractor._check_paths: TRUE when no assertion fails
check_paths(in_pdf_file_path, out_txt_file_path) ==
    LET directory_path == IF split(out_txt_file_path)[1] = "" THEN getcwd
                          ELSE split(out_txt_file_path)[1]
    IN  /\ isfile(in_pdf_file_path)
        /\ in_pdf_file_path # out_txt_file_path
        /\ isdir(directory_path)

RECURSIVE str_join(_, _)
\* sep.join(pages)
str_join(sep, pages) ==
    IF Len(pages) = 0 THEN ""
    ELSE IF Len(pages) = 1 THEN pages[1]
    ELSE pages[1] \o sep \o str_join(sep, Tail(pages))

\* the join without the blank lines around the token
merge_pages_contents_NoBlankLines(pages_sep_token, pages_contents) ==
    str_join("\n" \o pages_sep_token \o "\n", pages_contents)

\* BasePdfExtractor._merge_pages_contents
merge_pages_contents(pages_sep_token, pages_contents) ==
    str_join("\n\n" \o pages_sep_token \o "\n\n", pages_contents)

\* BasePdfExtractor._store: the file system after the write
store(content, out_txt_file_path) ==
    [p \in DOMAIN fs \cup {Resolve(out_txt_file_path)} |->
        IF p = Resolve(out_txt_file_path) THEN content ELSE fs[p]]

\* Path(file_name).suffixes[0], "" when the name has no suffix
FirstSuffix(name) ==
    LET n == lstrip(name, ".")
        i == find(n, ".", 1)
        j == find(n, ".", i + 1)
    IN  IF name = "" \/ Char(name, Len(name)) = "." \/ i = 0 THEN ""
        ELSE IF j = 0 THEN SubSeq(n, i, Len(n))
        ELSE SubSeq(n, i, j - 1)

\* NotMrPdfExtractor._remove_extensions
remove_extensions(file_name) ==
    LET name == IF file_name = "." THEN "" ELSE split(file_name)[2]
        suf  == FirstSuffix(name)
    IN  IF suf # "" THEN SubSeq(name, 1, find(name, suf, 1) - 1)
        ELSE name

\* NotMrPdfExtractor._create_images_folder: the folder's path
images_folder(e, in_pdf_file_path) ==
    join(e.cache_folder, remove_extensions(split(in_pdf_file_path)[2]))

\* the threshold compared strictly
enough_chars_Strict(page_content, minimum_chars_number) ==
    page_content # "" /\ Len(page_content) > minimum_chars_number

\* the hybrid decision without its emptiness test
enough_chars_NoEmptyTest(page_content, minimum_chars_number) ==
    Len(page_content) >= minimum_chars_number

\* the decision of the hybrid loop: keep pdftotext's page
enough_chars(page_content, minimum_chars_number) ==
    page_content # "" /\ Len(page_content) >= minimum_chars_number

\* the image file the rasterizer writes for page i of a PDF into a folder
rendered_page(content, folder, i) ==
    LET imgs == Docs[content].images
    IN  Resolve(join(folder, ImageName("pag", i, Len(imgs), "png"))) :> imgs[i]

\* the image files the rasterizer writes for a PDF into a folder
rendered(content, folder) ==
    LET imgs == Docs[content].images
    IN  [p \in { Resolve(join(folder, ImageName("pag", i, Len(imgs), "png"))) :
                    i \in 1..Len(imgs) } |->
            imgs[CHOOSE i \in 1..Len(imgs) :
                    Resolve(join(folder, ImageName("pag", i, Len(imgs), "png"))) = p]]

-----------------------------------------------------------------------------
(* The calls *)

\* the input and output paths of the calls: each document to a fresh text
\* file, a missing input, a missing output directory, and the input document
\* itself as output, spelled the same and differently
Paths ==
    { <<"a/doc.pdf", "r.txt">>, <<"b/doc.pdf", "r.txt">>,
      <<"c/scan.pdf", "r.txt">>, <<"c/text.pdf", "r.txt">>,
      <<"c/part.pdf", "r.txt">>,
      <<"a/none.pdf", "r.txt">>, <<"a/doc.pdf", "nodir/r.txt">>,
      <<"b/doc.pdf", "b/doc.pdf">>, <<"b/doc.pdf", "./b/doc.pdf">> }

\* the calls on which the options are varied: the threshold and the layout
\* on the four documents extracted in full, the language on the two documents
\* with scanned pages that share a file name
Varied ==
    { <<"a/doc.pdf", "r.txt">>, <<"b/doc.pdf", "r.txt">>,
      <<"c/scan.pdf", "r.txt">>, <<"c/text.pdf", "r.txt">> }
LangOn == { <<"a/doc.pdf", "r.txt">>, <<"b/doc.pdf", "r.txt">> }

MinChars == {0, 20}

\* the layout and language options: the defaults, and one changed at a time
Options ==
    { [raw |-> FALSE, physical |-> FALSE, lang |-> "eng"],
      [raw |-> TRUE,  physical |-> FALSE, lang |-> "eng"],
      [raw |-> FALSE, physical |-> TRUE,  lang |-> "eng"],
      [raw |-> FALSE, physical |-> FALSE, lang |-> "ita"] }

NoArgs == [in_pdf_file_path |-> "", out_txt_file_path |-> "",
           minimum_chars_number |-> 20, raw |-> FALSE, physical |-> FALSE,
           lang |-> "eng"]

\* a call that has not started
NoCall ==
    [pc |-> "idle",
     self |-> CHOOSE e \in Extractors : e.doc_extractor_type = MR,
     args |-> NoArgs, extracted_pages |-> <<>>, images_folder_path |-> "",
     imgs_pages |-> <<>>, result_pages |-> <<>>, err |-> "", log |-> <<>>,
     written |-> 0, out_before |-> {}, listed |-> <<>>, entries |-> {}, topfd |-> "none"]

\* no request being handled (services.py line 118; "" stands for None, and
\* status_code 0 for no response yet)
NoRequest ==
    [pc |-> "idle", filename |-> "", minimum_chars_number |-> 20,
     pdf_file_path |-> "", txt_file_path |-> "", content |-> "",
     status_code |-> 0, error |-> ""]

Init ==
    /\ fs = (Doc1 :> "%PDF mixed") @@ (Doc2 :> "%PDF scan2")
         @@ (Doc3 :> "%PDF scan3") @@ (Doc4 :> "%PDF text2")
         @@ (Doc6 :> "%PDF part")
    /\ dirs = {"/w", "/w/a", "/w/b", "/w/c", "/w/imgs"}
    /\ pc = "idle"
    /\ self = CHOOSE e \in Extractors : e.doc_extractor_type = MR
    /\ args = NoArgs
    /\ extracted_pages = <<>>
    /\ images_folder_path = ""
    /\ imgs_pages = <<>>
    /\ result_pages = <<>>
    /\ err = ""
    /\ log = <<>>
    /\ ncalls = 0
    /\ written = 0
    /\ out_before = {}
    /\ listed = <<>>
    /\ entries = {}
    /\ topfd = "none"
    /\ other = NoCall
    /\ handler = NoRequest

\* the running call has had an effect of this kind
Logged(what) == \E i \in 1..Len(log) : log[i][1] = what

\* an exception leaves extract_text
Raise(e) ==
    /\ pc' = "raised"
    /\ err' = e

\* the file of a path as it is now: its content in a set, the empty set when
\* there is no such file
FileNow(path) == IF isfile(path) THEN {fs[Resolve(path)]} ELSE {}

\* no extract_text call is running on the thread: none was made yet, or the
\* last one has returned or raised
NoneRunning == pc \in {"idle", "returned", "raised"}

\* extract_text is called (lines 177, 243, 323), at any time no call is
\* running on the thread, whatever the call before has left on disk: the
\* arguments are bound and _check_paths runs
ExtractText(e, a) ==
    /\ NoneRunning
    /\ ncalls < MaxCalls
    /\ ncalls' = ncalls + 1
    /\ self' = e
    /\ args' = a
    /\ extracted_pages' = <<>>
    /\ images_folder_path' = ""
    /\ imgs_pages' = <<>>
    /\ result_pages' = <<>>
    /\ log' = <<>>
    /\ written' = 0
    /\ out_before' = FileNow(a.out_txt_file_path)
    /\ listed' = <<>>
    /\ entries' = {}
    /\ topfd' = "none"
    /\ IF check_paths(a.in_pdf_file_path, a.out_txt_file_path)
       THEN /\ pc' = IF e.doc_extractor_type = OCR THEN "create_images_folder"
                     ELSE "pdftotext"
            /\ err' = ""
       ELSE Raise("AssertionError")
    /\ UNCHANGED <<fs, dirs>>

\* the arguments each extractor's extract_text takes; the others keep their
\* defaults. One option is varied at a time, on the calls of Varied and LangOn
ArgsOf(e) ==
    { a \in { [in_pdf_file_path |-> p[1], out_txt_file_path |-> p[2],
               minimum_chars_number |-> m, raw |-> o.raw, physical |-> o.physical,
               lang |-> o.lang] : p \in Paths, m \in MinChars, o \in Options } :
        /\ (a.minimum_chars_number # 20 \/ a.raw \/ a.physical) =>
              <<a.in_pdf_file_path, a.out_txt_file_path>> \in Varied
        /\ a.lang # "eng" => <<a.in_pdf_file_path, a.out_txt_file_path>> \in LangOn
        /\ a.minimum_chars_number # 20 => ~a.raw /\ ~a.physical /\ a.lang = "eng"
        /\ e.doc_extractor_type = MR =>
              a.minimum_chars_number = 20 /\ a.lang = "eng"
        /\ e.doc_extractor_type = OCR =>
              a.minimum_chars_number = 20 /\ ~a.raw /\ ~a.physical }

\* the calls: an extractor and the arguments of its extract_text
Calls == UNION { { <<e, a>> : a \in ArgsOf(e) } : e \in Extractors }

Call ==
    /\ NoneRunning
    /\ \E c \in Calls : ExtractText(c[1], c[2])
    /\ UNCHANGED elsewhere

\* pdftotext.PDF on the input file (lines 179-183, 326-330): the pages of
\* the document, or the library's error
Pdftotext ==
    /\ pc = "pdftotext"
    /\ LET content == fs[Resolve(args.in_pdf_file_path)]
       IN  \/ /\ content \in DOMAIN Docs
              /\ extracted_pages' = pdftotext(content, args.raw, args.physical)
              /\ log' = Append(log, <<"pdftotext", args.in_pdf_file_path>>)
              /\ pc' = IF self.doc_extractor_type = MR THEN "store"
                       ELSE "create_images_folder"
              /\ err' = err
           \/ /\ Raise("pdftotext.Error")
              /\ UNCHANGED <<extracted_pages, log>>
    /\ UNCHANGED <<fs, dirs, self, args, images_folder_path, imgs_pages,
                   result_pages, ncalls, written, out_before, listed, entries, topfd, elsewhere>>

\* os.mkdir(path): the error it raises, "" when it makes the directory
mkdir_error(path) ==
    IF Resolve(path) \in dirs \cup DOMAIN fs THEN "FileExistsError"
    ELSE IF split(Resolve(path))[1] \in DOMAIN fs THEN "NotADirectoryError"
    ELSE IF split(Resolve(path))[1] \notin dirs THEN "FileNotFoundError"
    ELSE ""

\* _create_images_folder (lines 115-120, called at 245 and 332): the folder's
\* path and the test whether the folder is there
CreateImagesFolder ==
    /\ pc = "create_images_folder"
    /\ images_folder_path' = images_folder(self, args.in_pdf_file_path)
    /\ pc' = IF isdir(images_folder_path') THEN "split_pdf_to_images" ELSE "mkdir"
    /\ UNCHANGED <<fs, dirs, self, args, extracted_pages, imgs_pages, result_pages,
                   err, log, ncalls, written, out_before, listed, entries, topfd, elsewhere>>

\* _create_images_folder, line 121: os.mkdir of the folder that the test of
\* line 120 did not find
Mkdir ==
    /\ pc = "mkdir"
    /\ IF mkdir_error(images_folder_path) # ""
       THEN /\ Raise(mkdir_error(images_folder_path))
            /\ UNCHANGED <<dirs, log>>
       ELSE /\ dirs' = dirs \cup {Resolve(images_folder_path)}
            /\ log' = Append(log, <<"mkdir", images_folder_path>>)
            /\ pc' = "split_pdf_to_images"
            /\ err' = err
    /\ UNCHANGED <<fs, self, args, extracted_pages, images_folder_path, imgs_pages,
                   result_pages, ncalls, written, out_before, listed, entries, topfd, elsewhere>>

\* the assertions of PdfSplitter._check_paths (pdf_splitting.py lines 27-31):
\* TRUE when none fails
splitter_check_paths(in_pdf_file_path, out_images_directory_path) ==
    /\ isfile(in_pdf_file_path)
    /\ in_pdf_file_path # out_images_directory_path
    /\ ~isdir(out_images_directory_path) =>
          isdir(split(Resolve(out_images_directory_path))[1])

\* PdfSplitter.split_pdf_to_images is called (at 246 and 333) and
\* _check_paths makes its tests (pdf_splitting.py lines 67-68, 25-31)
SplitPdfToImages ==
    /\ pc = "split_pdf_to_images"
    /\ IF ~splitter_check_paths(args.in_pdf_file_path, images_folder_path)
       THEN Raise("AssertionError")
       ELSE /\ pc' = IF isdir(images_folder_path) THEN "convert_from_path"
                     ELSE "splitter_mkdir"
            /\ err' = err
    /\ UNCHANGED <<fs, dirs, self, args, extracted_pages, images_folder_path,
                   imgs_pages, result_pages, log, ncalls, written, out_before, listed, entries, topfd, elsewhere>>

\* PdfSplitter._check_paths, line 32: os.mkdir of the folder that the test of
\* line 29 did not find; this happens only when another call has deleted the
\* folder since _create_images_folder
SplitterMkdir ==
    /\ pc = "splitter_mkdir"
    /\ IF mkdir_error(images_folder_path) # ""
       THEN /\ Raise(mkdir_error(images_folder_path))
            /\ UNCHANGED <<dirs, log>>
       ELSE /\ dirs' = dirs \cup {Resolve(images_folder_path)}
            /\ log' = Append(log, <<"mkdir", images_folder_path>>)
            /\ pc' = "convert_from_path"
            /\ err' = err
    /\ UNCHANGED <<fs, self, args, extracted_pages, images_folder_path, imgs_pages,
                   result_pages, ncalls, written, out_before, listed, entries, topfd, elsewhere>>

\* convert_from_path is called (pdf_splitting.py lines 69-79): pdf2image
\* reads the page count and starts the rasterizer's process, or fails
ConvertFromPath ==
    /\ pc = "convert_from_path"
    /\ LET content == fs[Resolve(args.in_pdf_file_path)]
       IN  \/ /\ content \in DOMAIN Docs
              /\ written' = 0
              /\ pc' = IF Len(Docs[content].images) = 0 THEN "load_from_output_folder"
                       ELSE "rendering"
              /\ err' = err
           \/ /\ Raise("pdf2image.Error")
              /\ UNCHANGED written
    /\ UNCHANGED <<fs, dirs, self, args, extracted_pages, images_folder_path,
                   imgs_pages, result_pages, log, ncalls, out_before, listed, entries, topfd, elsewhere>>

\* convert_from_path waits while the rasterizer's process writes the image
\* of the next page into the folder; the process ends after the last page,
\* or when the folder is gone
RenderPage ==
    /\ pc = "rendering"
    /\ LET content == fs[Resolve(args.in_pdf_file_path)]
       IN  IF content \in DOMAIN Docs /\ isdir(images_folder_path)
           THEN /\ fs' = rendered_page(content, images_folder_path, written + 1) @@ fs
                /\ written' = written + 1
                /\ pc' = IF written' = Len(Docs[content].images)
                         THEN "load_from_output_folder" ELSE "rendering"
           ELSE /\ pc' = "load_from_output_folder"
                /\ UNCHANGED <<fs, written>>
    /\ UNCHANGED <<dirs, self, args, extracted_pages, images_folder_path, imgs_pages,
                   result_pages, err, log, ncalls, out_before, listed, entries, topfd, elsewhere>>

\* convert_from_path, the process over, lists the folder to load the images;
\* with the folder gone os.listdir raises FileNotFoundError
LoadFromOutputFolder ==
    /\ pc = "load_from_output_folder"
    /\ IF isdir(images_folder_path)
       THEN /\ log' = Append(log, <<"pdf2image", images_folder_path>>)
            /\ pc' = IF self.doc_extractor_type = HYBRID THEN "compare"
                     ELSE "apply_ocr"
            /\ err' = err
       ELSE /\ Raise("FileNotFoundError")
            /\ UNCHANGED log
    /\ UNCHANGED <<fs, dirs, self, args, extracted_pages, images_folder_path,
                   imgs_pages, result_pages, ncalls, written, out_before, listed, entries, topfd, elsewhere>>

\* the loop left after its first page
after_page_First(loop, i, n) == IF i >= 1 \/ i >= n THEN "store" ELSE loop

\* line 344 without the comparison
counts_differ_Never(extracted, imgs) == FALSE

\* line 344 comparing only one way round
counts_differ_OneWay(extracted, imgs) == Len(extracted) > Len(imgs)

\* line 344: the two page counts disagree
counts_differ(extracted, imgs) == Len(extracted) # Len(imgs)

\* the for loops of lines 200 and 356: where the call stands once i of the n
\* pages are done
after_page(loop, i, n) == IF i >= n THEN "store" ELSE loop

\* the files of a listing as they are on disk: the content of each, "" for
\* what is not a file
Contents(paths) ==
    [i \in 1..Len(paths) |->
        IF isfile(paths[i]) THEN fs[Resolve(paths[i])] ELSE ""]

\* lines 341-345: list the folder and compare the two page counts;
\* os.listdir raises FileNotFoundError when the folder is gone
Compare ==
    /\ pc = "compare"
    /\ IF ~isdir(images_folder_path)
       THEN Raise("FileNotFoundError") /\ UNCHANGED <<imgs_pages, listed, log>>
       ELSE /\ imgs_pages' = sorted({ join(images_folder_path, fn) :
                                        fn \in listdir(images_folder_path) })
            /\ listed' = Contents(imgs_pages')
            /\ log' = Append(log, <<"listdir", images_folder_path>>)
            /\ IF counts_differ(extracted_pages, imgs_pages')
               THEN Raise("ValueError")
               ELSE /\ pc' = after_page("loop", 0, Len(extracted_pages))
                    /\ err' = err
    /\ UNCHANGED <<fs, dirs, self, args, extracted_pages, images_folder_path,
                   result_pages, ncalls, written, out_before, entries, topfd, elsewhere>>

\* one iteration of the loop of lines 356-366
HybridPage ==
    /\ pc = "loop"
    /\ LET i            == Len(result_pages) + 1
           page_content == extracted_pages[i]
           img_path     == imgs_pages[i]
           n            == IF Len(imgs_pages) < Len(extracted_pages)
                           THEN Len(imgs_pages) ELSE Len(extracted_pages)
       IN  IF enough_chars(page_content, args.minimum_chars_number)
           THEN /\ result_pages' = Append(result_pages, page_content)
                /\ pc' = after_page("loop", i, n)
                /\ UNCHANGED <<err, log>>
           ELSE \/ /\ isfile(img_path)
                   /\ result_pages' =
                        Append(result_pages,
                               image_to_string(fs[Resolve(img_path)], args.lang))
                   /\ log' = Append(log, <<"ocr", img_path>>)
                   /\ pc' = after_page("loop", i, n)
                   /\ err' = err
                \/ /\ Raise("TesseractError")
                   /\ log' = Append(log, <<"ocr", img_path>>)
                   /\ UNCHANGED result_pages
    /\ UNCHANGED <<fs, dirs, self, args, extracted_pages, images_folder_path,
                   imgs_pages, ncalls, written, out_before, listed, entries, topfd, elsewhere>>

\* _apply_ocr, line 200: the sorted listing the loop runs over; os.listdir
\* raises FileNotFoundError when the folder is gone
ApplyOcr ==
    /\ pc = "apply_ocr"
    /\ IF ~isdir(images_folder_path)
       THEN Raise("FileNotFoundError") /\ UNCHANGED <<imgs_pages, listed, log>>
       ELSE /\ imgs_pages' = sorted(listdir(images_folder_path))
            /\ listed' = Contents([i \in 1..Len(imgs_pages') |->
                                      join(images_folder_path, imgs_pages'[i])])
            /\ log' = Append(log, <<"listdir", images_folder_path>>)
            /\ pc' = after_page("ocr_loop", 0, Len(imgs_pages'))
            /\ err' = err
    /\ UNCHANGED <<fs, dirs, self, args, extracted_pages, images_folder_path,
                   result_pages, ncalls, written, out_before, entries, topfd, elsewhere>>

\* one iteration of the loop of _apply_ocr (lines 200-206)
OcrPage ==
    /\ pc = "ocr_loop"
    /\ LET i        == Len(result_pages) + 1
           img_path == join(images_folder_path, imgs_pages[i])
       IN  IF ~isfile(img_path)
           THEN Raise("AssertionError") /\ UNCHANGED <<result_pages, log>>
           ELSE \/ /\ result_pages' =
                        Append(result_pages,
                               image_to_string(fs[Resolve(img_path)], args.lang))
                   /\ log' = Append(log, <<"ocr", img_path>>)
                   /\ pc' = after_page("ocr_loop", i, Len(imgs_pages))
                   /\ err' = err
                \/ /\ Raise("TesseractError")
                   /\ log' = Append(log, <<"ocr", img_path>>)
                   /\ UNCHANGED result_pages
    /\ UNCHANGED <<fs, dirs, self, args, extracted_pages, images_folder_path,
                   imgs_pages, ncalls, written, out_before, listed, entries, topfd, elsewhere>>

\* _merge_pages_contents and the call of _store (lines 183-184, 265-266,
\* 368-369), up to line 65: open(mode="w") creates the output file empty, or
\* empties the file that is there
StoreOpen ==
    /\ pc = "store"
    /\ fs' = store("", args.out_txt_file_path)
    /\ log' = Append(log, <<"open", args.out_txt_file_path>>)
    /\ pc' = "store_write"
    /\ UNCHANGED <<dirs, self, args, extracted_pages, images_folder_path,
                   imgs_pages, result_pages, err, ncalls, written, out_before, listed, entries, topfd, elsewhere>>

\* _store, line 66 and the end of the with block: fw.write and the close put
\* the merged text in the file, and _store returns
StoreWrite ==
    /\ pc = "store_write"
    /\ LET pages_contents == IF self.doc_extractor_type = MR THEN extracted_pages
                             ELSE result_pages
           result_str     == merge_pages_contents(self.pages_sep_token, pages_contents)
       IN  fs' = store(result_str, args.out_txt_file_path)
    /\ log' = Append(log, <<"store", args.out_txt_file_path>>)
    /\ pc' = IF self.doc_extractor_type = MR THEN "returned"
             ELSE "remove_cache_folder"
    /\ UNCHANGED <<dirs, self, args, extracted_pages, images_folder_path,
                   imgs_pages, result_pages, err, ncalls, written, out_before, listed, entries, topfd, elsewhere>>

\* the other call loses the directory its rmtree has found or opened, when
\* that directory is one of those removed
Removing(removed) ==
    IF other.topfd = "fresh" /\ Resolve(other.images_folder_path) \in removed
    THEN [other EXCEPT !.topfd = "stale"]
    ELSE other

\* _remove_cache_folder (lines 124-127, called at 267 and 370): nothing with
\* preserve_cache; else shutil.rmtree is called and its os.lstat finds the
\* folder, or the deletion fails here; nothing catches its errors, which
\* leave extract_text
RemoveCacheFolder ==
    /\ pc = "remove_cache_folder"
    /\ IF self.preserve_cache
       THEN /\ pc' = "returned"
            /\ UNCHANGED <<log, err, topfd>>
       ELSE /\ log' = Append(log, <<"rmtree", images_folder_path>>)
            /\ IF ~isdir(images_folder_path)
               THEN Raise("FileNotFoundError") /\ UNCHANGED topfd
               ELSE \/ /\ pc' = "rmtree_open"
                       /\ topfd' = "fresh"
                       /\ err' = err
                    \/ /\ Raise("OSError")
                       /\ UNCHANGED topfd
    /\ UNCHANGED <<fs, dirs, self, args, extracted_pages, images_folder_path,
                   imgs_pages, result_pages, ncalls, written, out_before, listed, entries, elsewhere>>

\* shutil.rmtree: os.open of the folder and the comparison with what os.lstat
\* found; a folder removed since is missing, or another directory is at its
\* path, which is refused unless it got the inode number of the old one
RmtreeOpen ==
    /\ pc = "rmtree_open"
    /\ \/ /\ topfd = "fresh" \/ isdir(images_folder_path)
          /\ pc' = "rmtree_scandir"
          /\ topfd' = "fresh"
          /\ err' = err
       \/ /\ topfd = "stale"
          /\ Raise(IF isdir(images_folder_path) THEN "OSError"
                   ELSE "FileNotFoundError")
          /\ topfd' = "none"
    /\ UNCHANGED <<fs, dirs, self, args, extracted_pages, images_folder_path,
                   imgs_pages, result_pages, log, ncalls, written, out_before, listed, entries, elsewhere>>

\* where rmtree stands with these names left to delete
after_entry(names) == IF names = {} THEN "rmtree_rmdir" ELSE "rmtree_unlink"

\* shutil._rmtree_safe_fd: os.scandir lists the open directory; a directory
\* removed since it was opened lists nothing
RmtreeScandir ==
    /\ pc = "rmtree_scandir"
    /\ entries' = IF topfd = "fresh" THEN listdir(images_folder_path) ELSE {}
    /\ pc' = after_entry(entries')
    /\ UNCHANGED <<fs, dirs, self, args, extracted_pages, images_folder_path,
                   imgs_pages, result_pages, err, log, ncalls, written, out_before, listed, topfd, elsewhere>>

\* shutil._rmtree_safe_fd: one entry of the listing, in the listing's order,
\* which is any, is deleted: os.unlink of a file, FileNotFoundError when it
\* is no more in the directory; the deletion of a sub-directory with all
\* below it is taken as one step
RmtreeUnlink ==
    /\ pc = "rmtree_unlink"
    /\ \E name \in entries :
          LET fullname == Resolve(join(images_folder_path, name))
              removed  == { x \in DOMAIN fs \cup dirs :
                              StartsWith(x, fullname \o "/") } \cup {fullname}
          IN  IF topfd = "fresh" /\ fullname \in DOMAIN fs \cup dirs
              THEN /\ fs' = [f \in DOMAIN fs \ removed |-> fs[f]]
                   /\ dirs' = dirs \ removed
                   /\ other' = Removing(removed)
                   /\ entries' = entries \ {name}
                   /\ pc' = after_entry(entries')
                   /\ UNCHANGED <<err, topfd>>
              ELSE /\ Raise("FileNotFoundError")
                   /\ topfd' = "none"
                   /\ UNCHANGED <<fs, dirs, other, entries>>
    /\ UNCHANGED <<self, args, extracted_pages, images_folder_path, imgs_pages,
                   result_pages, log, ncalls, written, out_before, listed, handler>>

\* shutil.rmtree: os.rmdir of the folder, which fails on a path ending in
\* ".", on a folder that is gone and on one that is not empty
RmtreeRmdir ==
    /\ pc = "rmtree_rmdir"
    /\ topfd' = "none"
    /\ IF ~isdir(images_folder_path)
       THEN Raise("FileNotFoundError") /\ UNCHANGED <<dirs, other>>
       ELSE IF split(images_folder_path)[2] = "." \/ listdir(images_folder_path) # {}
       THEN Raise("OSError") /\ UNCHANGED <<dirs, other>>
       ELSE /\ dirs' = dirs \ {Resolve(images_folder_path)}
            /\ other' = Removing({Resolve(images_folder_path)})
            /\ pc' = "returned"
            /\ err' = err
    /\ UNCHANGED <<fs, self, args, extracted_pages, images_folder_path, imgs_pages,
                   result_pages, log, ncalls, written, out_before, listed, entries, handler>>

\* the caller may take the result: os.remove of the output file after a call
\* that wrote it (tests/test_text_extraction.py lines 49, 72, 102)
Collect ==
    /\ pc \in {"returned", "raised"}
    /\ Logged("store")
    /\ fs' = [p \in DOMAIN fs \ {Resolve(args.out_txt_file_path)} |-> fs[p]]
    /\ pc' = "idle"
    /\ UNCHANGED <<dirs, self, args, extracted_pages, images_folder_path,
                   imgs_pages, result_pages, err, log, ncalls, written, out_before, listed, entries, topfd, elsewhere>>

Next ==
    \/ Call
    \/ Collect
    \/ Pdftotext
    \/ CreateImagesFolder
    \/ Mkdir
    \/ SplitPdfToImages
    \/ ConvertFromPath
    \/ RenderPage
    \/ LoadFromOutputFolder
    \/ Compare
    \/ HybridPage
    \/ ApplyOcr
    \/ OcrPage
    \/ StoreOpen
    \/ StoreWrite
    \/ RemoveCacheFolder
    \/ RmtreeOpen
    \/ RmtreeScandir
    \/ RmtreeUnlink
    \/ RmtreeRmdir

Spec == Init /\ [][Next]_vars

-----------------------------------------------------------------------------
(* Vocabulary of the properties *)

Hybrid == self.doc_extractor_type = HYBRID

InFile  == Resolve(args.in_pdf_file_path)
OutFile == Resolve(args.out_txt_file_path)

\* the running call has neither created nor written its output: it has not
\* opened the output file, which is as the call found it, not there or with
\* the content it had
OutputUntouched ==
    /\ ~Logged("open")
    /\ FileNow(args.out_txt_file_path) = out_before

\* the hybrid call has listed the folder and compared the two page counts
Compared == Hybrid /\ Logged("listdir")

\* the locals of the running call
Running ==
    [pc |-> pc, self |-> self, args |-> args,
     extracted_pages |-> extracted_pages,
     images_folder_path |-> images_folder_path, imgs_pages |-> imgs_pages,
     result_pages |-> result_pages, err |-> err, log |-> log,
     written |-> written, out_before |-> out_before, listed |-> listed,
     entries |-> entries, topfd |-> topfd]

AllAtLeast(pages, m) == \A i \in 1..Len(pages) : Len(pages[i]) >= m

-----------------------------------------------------------------------------
(* C1 *)

\* C1: in a hybrid call, once the folder is listed and the number of
\* directly-extracted pages differs from the number of images found, the call
\* has failed with the page-count error (ValueError) and the output file has
\* been neither created nor written.
C1_MismatchRaisesNoOutput ==
    (Compared /\ Len(extracted_pages) # Len(imgs_pages)) =>
        /\ pc = "raised"
        /\ err = "ValueError"
        /\ OutputUntouched

\* a hybrid call failed on 3 extracted pages against 4 images
MoreImages ==
    /\ Compared
    /\ Len(extracted_pages) = 3
    /\ Len(imgs_pages) = 4
    /\ pc = "raised"
    /\ err = "ValueError"

\* a hybrid call failed on 2 extracted pages against 1 image, with the output
\* of the call before it in place, which it has left as it was
C1_Witness ==
    /\ Compared
    /\ Len(extracted_pages) = 2
    /\ Len(imgs_pages) = 1
    /\ pc = "raised"
    /\ err = "ValueError"
    /\ out_before # {}
    /\ FileNow(args.out_txt_file_path) = out_before

-----------------------------------------------------------------------------
(* C2 *)

\* C2: when a hybrid call has failed on a page-count mismatch, the
\* per-document cache folder is gone if preserve_cache is false and still
\* there if it is true.
C2_MismatchCleansCache ==
    (Hybrid /\ pc = "raised" /\ err = "ValueError") =>
        (isdir(images_folder_path) <=> self.preserve_cache)

-----------------------------------------------------------------------------
(* C3 *)

\* the image files the rasterizer renders for the input document of the call
OwnImages == rendered(fs[InFile], images_folder_path)

\* C3: when a hybrid or OCR call has returned, the per-document cache folder
\* is absent if preserve_cache is false, and otherwise it is present and holds
\* exactly the page images of the document of the call and nothing else.
C3_CacheAfterSuccess ==
    (pc = "returned" /\ self.doc_extractor_type \in {OCR, HYBRID}
        /\ InFile \in DOMAIN fs /\ fs[InFile] \in DOMAIN Docs) =>
        IF self.preserve_cache
        THEN /\ isdir(images_folder_path)
             /\ Below(images_folder_path) = DOMAIN OwnImages
             /\ \A p \in DOMAIN OwnImages : fs[p] = OwnImages[p]
        ELSE /\ ~isdir(images_folder_path)
             /\ Below(images_folder_path) = {}

-----------------------------------------------------------------------------
(* C4 *)

\* the page images of the input document, in page order
PageImages == Docs[fs[InFile]].images

\* C4: in a hybrid call whose page counts match, every final page text
\* obtained so far is the direct text of that page when it is non-empty and
\* at least minimum_chars_number long, and otherwise what OCR reads in the
\* image of that same page; nothing else of the document enters the choice.
C4_PerPageChoice ==
    (Compared /\ Len(extracted_pages) = Len(imgs_pages)
        /\ InFile \in DOMAIN fs /\ fs[InFile] \in DOMAIN Docs
        /\ pc \in {"loop", "store", "raised"}) =>
        /\ Len(result_pages) <= Len(extracted_pages)
        /\ \A i \in 1..Len(result_pages) :
              result_pages[i] =
                  IF extracted_pages[i] # ""
                     /\ Len(extracted_pages[i]) >= args.minimum_chars_number
                  THEN extracted_pages[i]
                  ELSE image_to_string(PageImages[i], args.lang)

\* the pages of 20, 5 and 0 characters with threshold 20: direct, OCR, OCR
C4_Witness ==
    /\ Compared
    /\ pc = "store"
    /\ args.minimum_chars_number = 20
    /\ extracted_pages = <<"Hello, page one here", "short", "">>
    /\ result_pages = <<"Hello, page one here", "short line seen by ocr",
                        "scanned third page">>

-----------------------------------------------------------------------------
(* C5 *)

\* C5: in a hybrid call on a document whose every page has at least
\* minimum_chars_number characters of direct text, the OCR engine is never
\* invoked, and the text written is what PdfToTextExtractor writes for the
\* same document and layout options.
C5_AllDirectEqualsPdfToText ==
    (Hybrid /\ Logged("pdftotext")
        /\ AllAtLeast(extracted_pages, args.minimum_chars_number)) =>
        /\ ~Logged("ocr")
        /\ pc = "remove_cache_folder" =>
              fs[OutFile] = merge_pages_contents(self.pages_sep_token, extracted_pages)

-----------------------------------------------------------------------------
(* C6 *)

AllEmpty(pages) == \A i \in 1..Len(pages) : pages[i] = ""

\* the OCR and the hybrid extractors
PairExtractors == { e \in Extractors : e.doc_extractor_type # MR }

\* the calls of the comparison: the two scanned documents and the document with
\* text, in either language, the hybrid calls with either threshold
PairArgsOf(e) ==
    { [NoArgs EXCEPT !.in_pdf_file_path = i, !.out_txt_file_path = o,
                     !.lang = l, !.minimum_chars_number = m] :
        i \in {"a/doc.pdf", "b/doc.pdf", "c/scan.pdf"}, o \in {"r1.txt", "r2.txt"},
        l \in {"eng", "ita"},
        m \in IF e.doc_extractor_type = OCR THEN {20} ELSE MinChars }

\* the cache folder is empty, or an earlier preserve_cache=True call on
\* a/doc.pdf has left its page images in imgs/doc
InitPair ==
    /\ \/ /\ fs = (Doc1 :> "%PDF mixed") @@ (Doc2 :> "%PDF scan2")
                    @@ (Doc3 :> "%PDF scan3")
          /\ dirs = {"/w", "/w/a", "/w/b", "/w/c", "/w/imgs"}
       \/ /\ fs = (Doc1 :> "%PDF mixed") @@ (Doc2 :> "%PDF scan2")
                    @@ (Doc3 :> "%PDF scan3")
                    @@ rendered("%PDF mixed", "/w/imgs/doc")
          /\ dirs = {"/w", "/w/a", "/w/b", "/w/c", "/w/imgs", "/w/imgs/doc"}
    /\ pc = "idle"
    /\ self = CHOOSE e \in Extractors : e.doc_extractor_type = MR
    /\ args = NoArgs
    /\ extracted_pages = <<>>
    /\ images_folder_path = ""
    /\ imgs_pages = <<>>
    /\ result_pages = <<>>
    /\ err = ""
    /\ log = <<>>
    /\ ncalls = 0
    /\ written = 0
    /\ out_before = {}
    /\ listed = <<>>
    /\ entries = {}
    /\ topfd = "none"
    /\ other = NoCall
    /\ handler = NoRequest

PairCalls == UNION { { <<e, a>> : a \in PairArgsOf(e) } : e \in PairExtractors }

\* the caller makes a first call, writing r1.txt, and when it is over a second
\* one, writing r2.txt: it keeps the locals and the result of the first to
\* compare
PairCall ==
    /\ NoneRunning
    /\ other = NoCall
    /\ \E c \in PairCalls :
          /\ c[2].out_txt_file_path = (IF ncalls = 0 THEN "r1.txt" ELSE "r2.txt")
          /\ ExtractText(c[1], c[2])
    /\ other' = Running
    /\ UNCHANGED handler

NextPair ==
    \/ PairCall
    \/ Pdftotext
    \/ CreateImagesFolder
    \/ Mkdir
    \/ SplitPdfToImages
    \/ ConvertFromPath
    \/ RenderPage
    \/ LoadFromOutputFolder
    \/ Compare
    \/ HybridPage
    \/ ApplyOcr
    \/ OcrPage
    \/ StoreOpen
    \/ StoreWrite
    \/ RemoveCacheFolder
    \/ RmtreeOpen
    \/ RmtreeScandir
    \/ RmtreeUnlink
    \/ RmtreeRmdir

SpecPair == InitPair /\ [][NextPair]_vars

\* the call of these locals has listed its folder
HasListed(c) == \E i \in 1..Len(c.log) : c.log[i][1] = "listdir"

\* the call of these locals has opened its output file
HasOpened(c) == \E i \in 1..Len(c.log) : c.log[i][1] = "open"

\* the call of these locals has written its output
HasStored(c) == \E i \in 1..Len(c.log) : c.log[i][1] = "store"

\* the output file of the call of these locals
TextOf(c) == fs[Resolve(c.args.out_txt_file_path)]

\* the running call and the call before it, either way round
TwoCalls == { <<Running, other>>, <<other, Running>> }

\* h is a hybrid call that found every page's direct text empty, o a call of
\* the OCR extractor on the same document with the same language, and both
\* have listed the document's folder
Paired(h, o) ==
    /\ h.self.doc_extractor_type = HYBRID
    /\ o.self.doc_extractor_type = OCR
    /\ h.args.in_pdf_file_path = o.args.in_pdf_file_path
    /\ h.args.lang = o.args.lang
    /\ HasListed(h)
    /\ HasListed(o)
    /\ AllEmpty(h.extracted_pages)

\* the errors of the tools and of the deletion of the cache folder
ToolErrors == {"pdf2image.Error", "TesseractError", "OSError", "FileNotFoundError"}

\* C6 as stated: on a document whose every page has empty direct text, a
\* hybrid call and a call of the OCR extractor with the same options, both
\* finding in the folder the images rendered from the document and no others,
\* and no tool failing in either, end the same way and leave the same text.
C6_Original ==
    \A c \in TwoCalls :
        LET h == c[1]
            o == c[2]
        IN  (Paired(h, o) /\ h.pc \in {"returned", "raised"}
                /\ o.pc \in {"returned", "raised"}
                /\ h.listed = Docs[fs[Resolve(h.args.in_pdf_file_path)]].images
                /\ o.listed = h.listed
                /\ h.err \notin ToolErrors /\ o.err \notin ToolErrors) =>
                /\ h.err = o.err
                /\ HasStored(h) <=> HasStored(o)
                /\ HasStored(h) => TextOf(h) = TextOf(o)

\* C6 amended: on a document whose every page has empty direct text, take a
\* hybrid call and a call of the OCR extractor with the same language that
\* found the same images in the folder. When the images are as many as the
\* directly-extracted pages, the hybrid call fails only where a tool or the
\* deletion of the folder fails, and the texts the two calls write are the
\* same. When they are not as many, the hybrid call has failed with the
\* page-count error and written nothing, where the OCR extractor's call does
\* not fail on the counts: it fails only where a tool or the deletion fails,
\* and else returns with its text written, a page for each image found.
C6_AllEmptyEqualsOcr ==
    \A c \in TwoCalls :
        LET h == c[1]
            o == c[2]
        IN  (Paired(h, o) /\ h.listed = o.listed) =>
                /\ o.pc = "raised" => o.err \in ToolErrors
                /\ o.pc = "returned" =>
                      HasStored(o) /\ Len(o.result_pages) = Len(o.listed)
                /\ IF Len(h.extracted_pages) = Len(h.listed)
                   THEN /\ h.pc = "raised" => h.err \in ToolErrors
                        /\ h.pc = "returned" => HasStored(h)
                        /\ (HasStored(h) /\ HasStored(o)) => TextOf(h) = TextOf(o)
                   ELSE /\ h.pc = "raised"
                        /\ h.err = "ValueError"
                        /\ ~HasOpened(h)

\* a hybrid call with threshold 0 on the two scanned pages has returned, after
\* a call of the OCR extractor on them, and both have written the OCR text
C6_Witness ==
    /\ Paired(Running, other)
    /\ pc = "returned"
    /\ other.pc = "returned"
    /\ args.minimum_chars_number = 0
    /\ listed = <<"png scan2 1", "png scan2 2">>
    /\ other.listed = listed
    /\ TextOf(Running) = "scan two, page one\n\n<END_PAGE>\n\n"
    /\ TextOf(other) = TextOf(Running)

-----------------------------------------------------------------------------
(* C7 *)

\* page lists and separator tokens given to _merge_pages_contents
PageTexts == {"", "a", "b\n\nc"}
Tokens    == {"<END_PAGE>", "#"}

PageLists == UNION { [1..n -> PageTexts] : n \in 0..MaxPages }

\* a PdfToTextExtractor about to merge and store a page list
InitMerge ==
    /\ fs = (Doc4 :> "%PDF text2")
    /\ dirs = {"/w", "/w/c"}
    /\ pc = "store"
    /\ self \in { [doc_extractor_type |-> MR, pages_sep_token |-> t,
                   preserve_cache |-> TRUE, cache_folder |-> "imgs"] : t \in Tokens }
    /\ args = [NoArgs EXCEPT !.in_pdf_file_path = "c/text.pdf",
                              !.out_txt_file_path = "r.txt"]
    /\ extracted_pages \in PageLists
    /\ images_folder_path = ""
    /\ imgs_pages = <<>>
    /\ result_pages = <<>>
    /\ err = ""
    /\ log = <<>>
    /\ ncalls = 1
    /\ written = 0
    /\ out_before = {}
    /\ listed = <<>>
    /\ entries = {}
    /\ topfd = "none"
    /\ other = NoCall
    /\ handler = NoRequest

NextMerge ==
    \/ StoreOpen
    \/ StoreWrite
    \/ Collect

SpecMerge == InitMerge /\ [][NextMerge]_vars

Sep == "\n\n" \o self.pages_sep_token \o "\n\n"

RECURSIVE TotalLen(_, _)
\* the length of the first k pages with a separator after each
TotalLen(pages, k) ==
    IF k = 0 THEN 0 ELSE TotalLen(pages, k - 1) + Len(pages[k]) + Len(Sep)

\* C7: the merged text is p1 + sep + p2 + ... + sep + pn verbatim, sep being
\* the token with a blank line on each side: page i stands at its offset
\* unchanged, a separator follows every page but the last, and nothing
\* precedes the first page or follows the last; no pages give the empty text.
C7_MergeVerbatim ==
    (self.doc_extractor_type = MR /\ pc = "returned") =>
        LET out == fs[OutFile]
            n   == Len(extracted_pages)
        IN  /\ n = 0 => out = ""
            /\ n > 0 => Len(out) = TotalLen(extracted_pages, n) - Len(Sep)
            /\ \A i \in 1..n :
                  LET at == TotalLen(extracted_pages, i - 1)
                  IN  /\ SubSeq(out, at + 1, at + Len(extracted_pages[i]))
                            = extracted_pages[i]
                      /\ i < n =>
                            SubSeq(out, at + Len(extracted_pages[i]) + 1,
                                   TotalLen(extracted_pages, i)) = Sep

\* three pages, the middle one empty, merged with the default token
C7_Witness ==
    /\ pc = "returned"
    /\ self.pages_sep_token = "<END_PAGE>"
    /\ extracted_pages = <<"a", "", "b\n\nc">>
    /\ fs[OutFile] = "a\n\n<END_PAGE>\n\n\n\n<END_PAGE>\n\nb\n\nc"

-----------------------------------------------------------------------------
(* C8 *)

\* the paths of the running call are invalid: no input file, input and
\* output the same file, or no directory for the output
InvalidPaths ==
    \/ ~isfile(args.in_pdf_file_path)
    \/ InFile = OutFile
    \/ ~isdir(IF split(args.out_txt_file_path)[1] = "" THEN getcwd
              ELSE split(args.out_txt_file_path)[1])

\* C8: a call whose input file does not exist, whose input and output are
\* the same file, or whose output directory does not exist, fails before any
\* work: it has raised, nothing was extracted, created, rendered, read by OCR
\* or written.
C8_InvalidPathsFailFirst ==
    (ncalls > 0 /\ pc # "idle" /\ InvalidPaths) =>
        /\ pc = "raised"
        /\ err = "AssertionError"
        /\ log = <<>>

-----------------------------------------------------------------------------
(* C9 *)

\* C9: when the rasterizer or the OCR engine has failed in a hybrid or OCR
\* call, the error has left the call and, unless preserve_cache is true, the
\* per-document cache folder is gone.
C9_ToolFailureCleansCache ==
    (pc = "raised" /\ err \in {"pdf2image.Error", "TesseractError"}
        /\ ~self.preserve_cache) =>
        ~isdir(images_folder_path)

-----------------------------------------------------------------------------
(* C10 *)

\* the page texts the running call merges
FinalPages ==
    IF self.doc_extractor_type = MR THEN extracted_pages ELSE result_pages

\* the pages whose final text the running call has to obtain
PagesDue ==
    IF self.doc_extractor_type = OCR THEN Len(imgs_pages)
    ELSE Len(extracted_pages)

\* C10: the output file is opened, and so created or emptied, only once
\* every page's final text is there; it is empty while _store writes and
\* holds the full merge from the return of _store on; a call that failed on
\* its paths, on the page counts or on a tool has not opened the output.
C10_OutputOnlyAfterFullMerge ==
    /\ (ncalls > 0 /\ Logged("open")) =>
          /\ Len(FinalPages) = PagesDue
          /\ self.doc_extractor_type = HYBRID => Len(imgs_pages) = Len(extracted_pages)
          /\ pc = "store_write" => fs[OutFile] = ""
          /\ pc \in {"remove_cache_folder", "rmtree_open", "rmtree_scandir",
                    "rmtree_unlink", "rmtree_rmdir", "returned"} =>
                fs[OutFile] = merge_pages_contents(self.pages_sep_token, FinalPages)
    /\ (pc = "raised"
        /\ err \in {"AssertionError", "ValueError", "pdftotext.Error",
                    "pdf2image.Error", "TesseractError"}) =>
          OutputUntouched

\* a hybrid call failed in OCR on its last page, two pages done, and the
\* output file still holds the text the call before it wrote
C10_Witness ==
    /\ Hybrid
    /\ pc = "raised"
    /\ err = "TesseractError"
    /\ Len(extracted_pages) = 3
    /\ Len(result_pages) = 2
    /\ out_before # {}
    /\ FileNow(args.out_txt_file_path) = out_before

-----------------------------------------------------------------------------
(* C11 *)

\* the deletion of the cache folder is under way
Deleting == pc \in {"rmtree_open", "rmtree_scandir", "rmtree_unlink", "rmtree_rmdir"}

\* C11: with preserve_cache false, a call that has written the merged text
\* and whose deletion of the cache folder is over, failed or not, has
\* returned: no error of the deletion leaves extract_text.
C11_CleanupFailureSwallowed ==
    (~self.preserve_cache /\ Logged("store") /\ Logged("rmtree") /\ ~Deleting) =>
        /\ pc \in {"returned", "idle"}
        /\ err = ""

-----------------------------------------------------------------------------
(* Two extract_text calls at once on extractors sharing cache_folder "imgs" *)

\* the scheduler runs the other call: between any two steps of extract_text
\* (each a library call or a subprocess) the other thread may go on
Switch ==
    /\ pc' = other.pc
    /\ self' = other.self
    /\ args' = other.args
    /\ extracted_pages' = other.extracted_pages
    /\ images_folder_path' = other.images_folder_path
    /\ imgs_pages' = other.imgs_pages
    /\ result_pages' = other.result_pages
    /\ err' = other.err
    /\ log' = other.log
    /\ written' = other.written
    /\ out_before' = other.out_before
    /\ listed' = other.listed
    /\ entries' = other.entries
    /\ topfd' = other.topfd
    /\ other' = Running
    /\ UNCHANGED <<fs, dirs, ncalls, handler>>

\* the OCR and hybrid extractors with preserve_cache=False
ConcExtractors ==
    { e \in Extractors : e.doc_extractor_type # MR /\ ~e.preserve_cache }

\* the calls of the two threads: two documents named doc.pdf and one named
\* text.pdf, each thread writing its own output file, r1.txt the thread that
\* calls first
ConcArgs ==
    { [NoArgs EXCEPT !.in_pdf_file_path = i, !.out_txt_file_path = o] :
        i \in {"a/doc.pdf", "b/doc.pdf", "c/text.pdf"}, o \in {"r1.txt", "r2.txt"} }

ConcCall ==
    /\ NoneRunning
    /\ \E e \in ConcExtractors : \E a \in ConcArgs :
          /\ ncalls = 0 => a.out_txt_file_path = "r1.txt"
          /\ a.out_txt_file_path # other.args.out_txt_file_path
          /\ ExtractText(e, a)
    /\ UNCHANGED elsewhere

NextConc ==
    \/ ConcCall
    \/ Switch
    \/ Pdftotext
    \/ CreateImagesFolder
    \/ Mkdir
    \/ SplitPdfToImages
    \/ SplitterMkdir
    \/ ConvertFromPath
    \/ RenderPage
    \/ LoadFromOutputFolder
    \/ Compare
    \/ HybridPage
    \/ ApplyOcr
    \/ OcrPage
    \/ StoreOpen
    \/ StoreWrite
    \/ RemoveCacheFolder
    \/ RmtreeOpen
    \/ RmtreeScandir
    \/ RmtreeUnlink
    \/ RmtreeRmdir

SpecConc == Init /\ [][NextConc]_vars

-----------------------------------------------------------------------------
(* C12 *)

\* the call has its cache folder in use: created and not yet deleted
InUse(c) ==
    /\ c.self.doc_extractor_type \in {OCR, HYBRID}
    /\ c.pc \in {"split_pdf_to_images", "convert_from_path", "rendering",
                  "load_from_output_folder", "compare", "loop",
                  "apply_ocr", "ocr_loop", "store", "store_write",
                  "remove_cache_folder"}

\* the folder of the call is there and holds page images of the call's own
\* document only
Owned(c) ==
    /\ isdir(c.images_folder_path)
    /\ \A f \in Below(c.images_folder_path) \cap DOMAIN fs :
          \E i \in DOMAIN Docs[fs[Resolve(c.args.in_pdf_file_path)]].images :
              fs[f] = Docs[fs[Resolve(c.args.in_pdf_file_path)]].images[i]

\* C12: while two calls sharing one cache_folder both have their
\* per-document folder in use, under any interleaving and also for two
\* inputs of the same base name, the folder of each is there (the other has
\* not deleted it) and holds no image file written by the other, so none is
\* listed, read by OCR or deleted by the call that did not write it.
C12_ExclusiveCacheFolder ==
    (InUse(Running) /\ InUse(other)) => Owned(Running) /\ Owned(other)

-----------------------------------------------------------------------------
(* services.py: the /extract_text request handler *)

\* hybrid_extr_obj (services.py lines 58-59)
hybrid_extr_obj ==
    CHOOSE e \in Extractors : e.doc_extractor_type = HYBRID /\ ~e.preserve_cache

\* the uploads: file name and content as the client sends them
Uploads ==
    { [filename |-> "doc.pdf",       content |-> "%PDF mixed"],
      [filename |-> "scan.pdf",      content |-> "%PDF scan3"],
      [filename |-> "text.pdf",      content |-> "%PDF text2"],
      [filename |-> "text.txt",      content |-> "%PDF text2"],
      [filename |-> "nodir/doc.pdf", content |-> "%PDF mixed"],
      [filename |-> "a",             content |-> "%PDF text2"] }

\* the except clauses of the handler (services.py lines 162-177): the status
\* of the response to an exception, by its class
status_code(exception) ==
    IF exception \in {"ValueError", "TypeError"} THEN 422
    ELSE IF exception = "FileNotFoundError" THEN 404
    ELSE 500

\* the error response and the end of the request
Respond(exception) ==
    handler' = [handler EXCEPT !.pc = "done", !.error = exception,
                               !.status_code = status_code(exception)]

\* services.py lines 118-136: the upload is stored under the working
\* directory as input_file.filename and the output name is derived from it
HandlerUpload ==
    /\ handler.pc \in {"idle", "done"}
    /\ pc = "idle"
    /\ ncalls < MaxCalls
    /\ \E u \in Uploads : \E m \in MinChars :
          LET pdf_file_path == join(getcwd, u.filename)
              request == [NoRequest EXCEPT !.filename = u.filename,
                                           !.minimum_chars_number = m,
                                           !.pdf_file_path = pdf_file_path]
          IN  IF isdir(pdf_file_path)
              THEN /\ handler' = [request EXCEPT !.pc = "done",
                                      !.error = "IsADirectoryError",
                                      !.status_code = status_code("IsADirectoryError")]
                   /\ fs' = fs
              ELSE IF ~isdir(split(pdf_file_path)[1])
              THEN /\ handler' = [request EXCEPT !.pc = "done",
                                      !.error = "FileNotFoundError",
                                      !.status_code = status_code("FileNotFoundError")]
                   /\ fs' = fs
              ELSE /\ fs' = (pdf_file_path :> u.content) @@ fs
                   /\ handler' = [request EXCEPT !.pc = "extract",
                                      !.txt_file_path =
                                          remove_extensions(pdf_file_path) \o ".txt"]
    /\ UNCHANGED <<dirs, pc, self, args, extracted_pages, images_folder_path,
                   imgs_pages, result_pages, err, log, ncalls, written, out_before, listed, entries, topfd, other>>

\* services.py lines 137-148: the call of hybrid_extr_obj.extract_text
HandlerExtract ==
    /\ handler.pc = "extract"
    /\ ExtractText(hybrid_extr_obj,
                   [NoArgs EXCEPT !.in_pdf_file_path = handler.pdf_file_path,
                                  !.out_txt_file_path = handler.txt_file_path,
                                  !.minimum_chars_number = handler.minimum_chars_number])
    /\ handler' = [handler EXCEPT !.pc = "extracting"]
    /\ UNCHANGED other

\* services.py lines 149-161: the text is read back, both files are removed
\* and the text is answered; a file that is not there raises
\* FileNotFoundError
HandlerReturn ==
    /\ handler.pc = "extracting"
    /\ pc = "returned"
    /\ pc' = "idle"
    /\ LET pdf == Resolve(handler.pdf_file_path)
           txt == Resolve(handler.txt_file_path)
       IN  IF txt \notin DOMAIN fs
           THEN Respond("FileNotFoundError") /\ fs' = fs
           ELSE IF pdf \notin DOMAIN fs
           THEN /\ handler' = [handler EXCEPT !.pc = "done", !.content = fs[txt],
                                   !.error = "FileNotFoundError",
                                   !.status_code = status_code("FileNotFoundError")]
                /\ fs' = fs
           ELSE IF txt = pdf
           THEN /\ handler' = [handler EXCEPT !.pc = "done", !.content = fs[txt],
                                   !.error = "FileNotFoundError",
                                   !.status_code = status_code("FileNotFoundError")]
                /\ fs' = [p \in DOMAIN fs \ {pdf} |-> fs[p]]
           ELSE /\ handler' = [handler EXCEPT !.pc = "done", !.content = fs[txt],
                                   !.status_code = 200]
                /\ fs' = [p \in DOMAIN fs \ {pdf, txt} |-> fs[p]]
    /\ UNCHANGED <<dirs, self, args, extracted_pages, images_folder_path,
                   imgs_pages, result_pages, err, log, ncalls, written, out_before, listed, entries, topfd, other>>

\* services.py lines 162-177: an exception of extract_text is answered
HandlerExcept ==
    /\ handler.pc = "extracting"
    /\ pc = "raised"
    /\ pc' = "idle"
    /\ Respond(err)
    /\ UNCHANGED <<fs, dirs, self, args, extracted_pages, images_folder_path,
                   imgs_pages, result_pages, err, log, ncalls, written, out_before, listed, entries, topfd, other>>

NextService ==
    \/ HandlerUpload
    \/ HandlerExtract
    \/ HandlerReturn
    \/ HandlerExcept
    \/ Pdftotext
    \/ CreateImagesFolder
    \/ Mkdir
    \/ SplitPdfToImages
    \/ ConvertFromPath
    \/ RenderPage
    \/ LoadFromOutputFolder
    \/ Compare
    \/ HybridPage
    \/ StoreOpen
    \/ StoreWrite
    \/ RemoveCacheFolder
    \/ RmtreeOpen
    \/ RmtreeScandir
    \/ RmtreeUnlink
    \/ RmtreeRmdir

SpecService == Init /\ [][NextService]_vars

-----------------------------------------------------------------------------
(* C13 *)

\* the paths of the request are invalid input: input and output are the
\* same file
InvalidRequestPaths ==
    /\ handler.txt_file_path # ""
    /\ Resolve(handler.pdf_file_path) = Resolve(handler.txt_file_path)

\* C13: every request is answered, and the class of the answer matches the
\* failure: 422 for invalid input or configuration (paths that path
\* validation has to reject, a rejection by path validation, the page-count
\* mismatch), 404 for a missing file, 500 for any other exception, and 200
\* with the text when nothing failed; error answers carry the error.
C13_ResponseMatchesFailure ==
    handler.pc = "done" =>
        IF InvalidRequestPaths
           \/ handler.error \in {"AssertionError", "ValueError", "TypeError"}
        THEN handler.status_code = 422
        ELSE IF handler.error = "FileNotFoundError" THEN handler.status_code = 404
        ELSE IF handler.error # "" THEN handler.status_code = 500
        ELSE handler.status_code = 200

-----------------------------------------------------------------------------
(* C14 *)

\* the position of an image path in the sorted listing of the call
PageOf(path) == CHOOSE i \in 1..Len(imgs_pages) : imgs_pages[i] = path

\* the log entries of this kind
Entries(what) == { k \in 1..Len(log) : log[k][1] = what }

\* C14: in a hybrid call every OCR invocation comes after the direct
\* extraction, the rasterization and the listing of the folder, in this
\* order, and only with equal page counts, so a call with a mismatch makes
\* none; the invocations are made one per page step, on the image at the
\* page's own position, in increasing page order.
C14_OcrAfterCheckInOrder ==
    Hybrid =>
        /\ \A k \in Entries("ocr") :
              /\ \E a \in Entries("pdftotext") : \E b \in Entries("pdf2image") :
                    \E c \in Entries("listdir") : a < b /\ b < c /\ c < k
              /\ Len(extracted_pages) = Len(imgs_pages)
              /\ \E i \in 1..Len(imgs_pages) : imgs_pages[i] = log[k][2]
              /\ PageOf(log[k][2]) <= Len(result_pages) + 1
              /\ \A l \in Entries("ocr") :
                    l < k => PageOf(log[l][2]) < PageOf(log[k][2])
        /\ (Compared /\ Len(extracted_pages) # Len(imgs_pages)) =>
              Entries("ocr") = {}
        /\ Cardinality(Entries("ocr")) <= Len(extracted_pages)

\* a hybrid call on three pages has read pages 2 and 3 by OCR, in this order
C14_Witness ==
    /\ Hybrid
    /\ pc = "store"
    /\ Len(extracted_pages) = 3
    /\ log = << <<"pdftotext", "a/doc.pdf">>, <<"mkdir", "imgs/doc">>,
                <<"pdf2image", "imgs/doc">>, <<"listdir", "imgs/doc">>,
                <<"ocr", "imgs/doc/pag-2.png">>, <<"ocr", "imgs/doc/pag-3.png">> >>

-----------------------------------------------------------------------------
(* Calls on a document of ten or more pages *)

\* the 3-page and the long document named doc.pdf on disk
InitOrder ==
    /\ fs = (Doc1 :> "%PDF mixed") @@ (Doc5 :> "%PDF long")
    /\ dirs = {"/w", "/w/a", "/w/d", "/w/imgs"}
    /\ pc = "idle"
    /\ self = CHOOSE e \in Extractors : e.doc_extractor_type = MR
    /\ args = NoArgs
    /\ extracted_pages = <<>>
    /\ images_folder_path = ""
    /\ imgs_pages = <<>>
    /\ result_pages = <<>>
    /\ err = ""
    /\ log = <<>>
    /\ ncalls = 0
    /\ written = 0
    /\ out_before = {}
    /\ listed = <<>>
    /\ entries = {}
    /\ topfd = "none"
    /\ other = NoCall
    /\ handler = NoRequest

OrderArgs ==
    { [NoArgs EXCEPT !.in_pdf_file_path = i, !.out_txt_file_path = "r.txt"] :
        i \in {"a/doc.pdf", "d/doc.pdf"} }

OrderCall ==
    /\ NoneRunning
    /\ \E e \in Extractors : \E a \in OrderArgs : ExtractText(e, a)
    /\ UNCHANGED elsewhere

NextOrder ==
    \/ OrderCall
    \/ Collect
    \/ Pdftotext
    \/ CreateImagesFolder
    \/ Mkdir
    \/ SplitPdfToImages
    \/ ConvertFromPath
    \/ RenderPage
    \/ LoadFromOutputFolder
    \/ Compare
    \/ HybridPage
    \/ ApplyOcr
    \/ OcrPage
    \/ StoreOpen
    \/ StoreWrite
    \/ RemoveCacheFolder
    \/ RmtreeOpen
    \/ RmtreeScandir
    \/ RmtreeUnlink
    \/ RmtreeRmdir

SpecOrder == InitOrder /\ [][NextOrder]_vars

-----------------------------------------------------------------------------
(* C15 *)

\* what page i of the input document gives the merge of the running call
FromPage(i) ==
    LET direct == pdftotext(fs[InFile], args.raw, args.physical)[i]
        ocr    == image_to_string(PageImages[i], args.lang)
    IN  IF self.doc_extractor_type = MR THEN direct
        ELSE IF self.doc_extractor_type = OCR THEN ocr
        ELSE IF direct # "" /\ Len(direct) >= args.minimum_chars_number
        THEN direct
        ELSE ocr

\* C15: page order is kept end to end in every extractor: the rasterizer
\* naming its files pag-{zero-padded page index}.png, the i-th of the page
\* texts a call merges comes from page i of its document (the direct text of
\* page i, or the OCR of the image of page i), for documents of any number
\* of pages, ten and more included.
C15_PageOrderPreserved ==
    (pc \in {"store", "store_write", "remove_cache_folder", "returned"}
        /\ InFile \in DOMAIN fs /\ fs[InFile] \in DOMAIN Docs) =>
        \A i \in 1..Len(FinalPages) :
            /\ i <= Len(PageImages)
            /\ FinalPages[i] = FromPage(i)

-----------------------------------------------------------------------------
(* C16 *)

\* C16: when a hybrid or OCR call merges its pages, the per-document cache
\* folder holds exactly N images, N being the number of pages the rasterizer
\* rendered of the document of the call, whatever calls came before on the
\* same cache_folder; so the OCR extractor merges exactly N page texts.
C16_FolderHoldsNImages ==
    (pc = "store" /\ self.doc_extractor_type \in {OCR, HYBRID}
        /\ InFile \in DOMAIN fs /\ fs[InFile] \in DOMAIN Docs) =>
        /\ Cardinality(listdir(images_folder_path)) = Len(PageImages)
        /\ Len(result_pages) = Len(PageImages)

-----------------------------------------------------------------------------
(* Calls on input files of every short name *)

NameChars == {".", "a", "b"}

RECURSIVE Concat(_)
Concat(chars) == IF chars = <<>> THEN "" ELSE Head(chars) \o Concat(Tail(chars))

\* the file names over NameChars, "." and ".." being no file names
FileNames ==
    { Concat(q) : q \in UNION { [1..n -> NameChars] : n \in 1..MaxNameLen } }
        \ {".", ".."}

\* one PDF of two text pages, of any of the names, in directory u
InitNames ==
    /\ \E name \in FileNames : fs = (("/w/u/" \o name) :> "%PDF text2")
    /\ dirs = {"/w", "/w/u", "/w/imgs"}
    /\ pc = "idle"
    /\ self = CHOOSE e \in Extractors : e.doc_extractor_type = MR
    /\ args = NoArgs
    /\ extracted_pages = <<>>
    /\ images_folder_path = ""
    /\ imgs_pages = <<>>
    /\ result_pages = <<>>
    /\ err = ""
    /\ log = <<>>
    /\ ncalls = 0
    /\ written = 0
    /\ out_before = {}
    /\ listed = <<>>
    /\ entries = {}
    /\ topfd = "none"
    /\ other = NoCall
    /\ handler = NoRequest

NamesCall ==
    /\ NoneRunning
    /\ \E e \in Extractors : \E name \in FileNames :
          /\ e.doc_extractor_type # MR
          /\ ("/w/u/" \o name) \in DOMAIN fs
          /\ ExtractText(e, [NoArgs EXCEPT !.in_pdf_file_path = "u/" \o name,
                                           !.out_txt_file_path = "r.txt"])
    /\ UNCHANGED elsewhere

NextNames ==
    \/ NamesCall
    \/ Collect
    \/ Pdftotext
    \/ CreateImagesFolder
    \/ Mkdir
    \/ SplitPdfToImages
    \/ ConvertFromPath
    \/ RenderPage
    \/ LoadFromOutputFolder
    \/ Compare
    \/ HybridPage
    \/ ApplyOcr
    \/ OcrPage
    \/ StoreOpen
    \/ StoreWrite
    \/ RemoveCacheFolder
    \/ RmtreeOpen
    \/ RmtreeScandir
    \/ RmtreeUnlink
    \/ RmtreeRmdir

SpecNames == InitNames /\ [][NextNames]_vars

-----------------------------------------------------------------------------
(* C17 *)

\* the name with all its extensions stripped: the part before the first
\* extension, the first extension starting at the first dot after the
\* name's first character that is no dot; the name itself when it has no
\* extension
Stripped(name) ==
    LET dots == Len(name) - Len(lstrip(name, "."))
        i    == find(lstrip(name, "."), ".", 1)
    IN  IF name = "" \/ Char(name, Len(name)) = "." \/ i = 0 THEN name
        ELSE SubSeq(name, 1, dots + i - 1)

\* the file name of the input of the running call
InName == split(args.in_pdf_file_path)[2]

\* C17: the cache folder of a call is named after the input's base name
\* alone: it is cache_folder joined with the file name stripped of all its
\* extensions (the part before the first extension; the whole name when it
\* has none), so two inputs share a folder exactly when their stripped names
\* are equal.
C17_FolderNamedByStrippedName ==
    (self.doc_extractor_type \in {OCR, HYBRID} /\ images_folder_path # "") =>
        /\ remove_extensions(InName) = Stripped(InName)
        /\ images_folder_path = join(self.cache_folder, Stripped(InName))

-----------------------------------------------------------------------------
(* C18 *)

\* C18: for every input file name the per-document cache folder is a
\* proper child directory of cache_folder, its name never empty; so the
\* deletion of a call's folder never deletes cache_folder itself, which is
\* there at every moment.
C18_FolderIsProperChild ==
    /\ (self.doc_extractor_type \in {OCR, HYBRID} /\ images_folder_path # "") =>
          /\ Resolve(images_folder_path) # Resolve(self.cache_folder)
          /\ split(Resolve(images_folder_path))[1] = Resolve(self.cache_folder)
          /\ split(Resolve(images_folder_path))[2] # ""
    /\ isdir("imgs")

-----------------------------------------------------------------------------
(* C19 *)

\* C19: extract_text never modifies the input PDF: in every call that has
\* opened its output, the file opened and written is another file than the
\* input document, however the two paths are spelled, and the input still
\* holds the PDF.
C19_InputNeverWritten ==
    (ncalls > 0 /\ Logged("open")
        /\ pc \in {"store_write", "remove_cache_folder", "rmtree_open", "rmtree_scandir",
                  "rmtree_unlink", "rmtree_rmdir", "returned", "raised"}) =>
        /\ OutFile # InFile
        /\ InFile \in DOMAIN fs
        /\ fs[InFile] \in DOMAIN Docs

====
